---- MODULE Spec2Model ----
(***************************************************************************)
(* Model of captra's capability enforcement engine (src/src/host.rs), its  *)
(* trace events (src/src/trace.rs) and its manifest (src/src/manifest.rs). *)
(*                                                                         *)
(* Texts (String, &str, Path) are sequences of units.  A unit is a one     *)
(* character string ("a", "/", "*"), a literal fragment of the program     *)
(* text kept whole ("glob_mismatch", ": ", "no matching pattern"), or, in  *)
(* a path only, the unit "xFF": a byte that is not valid UTF-8.            *)
(* A u64 is a sequence of 8 bytes, least significant first.                *)
(* An Option is a sequence of length 0 (None) or 1 (Some).                 *)
(***************************************************************************)
EXTENDS Integers, Sequences, FiniteSets, TLC

VARIABLES host, twin, calls, log, disk, ret, exported

vars == <<host, twin, calls, log, disk, ret, exported>>

----------------------------------------------------------------------------
(* Bounds of the model *)

MaxCalls == 3

MaxReadLen == 2

\* calls of execute_plugin and read_file in a run that also signs, saves and loads
MaxOpsCalls == 2

----------------------------------------------------------------------------
(* Option, u64 *)

None == <<>>

Some(x) == <<x>>

PRIME_MULTIPLIER == 314159

RECURSIVE MulBytes(_, _, _, _)
MulBytes(bytes, k, i, carry) ==
    IF i > Len(bytes) THEN <<>>
    ELSE LET t == bytes[i] * k + carry
         IN  <<t % 256>> \o MulBytes(bytes, k, i + 1, t \div 256)

\* u64::wrapping_mul by a multiplier below 2^23: the carry out of byte 8 is lost
WrappingMul(x, k) == MulBytes(x, k, 1, 0)

\* StdRng::seed_from_u64(s).gen::<u64>(): a fixed function of the seed it is given
StdRngGen(s) == [rng |-> "StdRng", seeded |-> s]

U64Test == <<57, 48, 0, 0, 0, 0, 0, 0>>

U64High == <<0, 0, 0, 0, 0, 0, 0, 128>>

\* Display of a u64: its decimal digits. Long division by ten of the bytes,
\* most significant first.
RECURSIVE Rem10At(_, _)
Rem10At(x, i) == IF i > Len(x) THEN 0 ELSE (Rem10At(x, i + 1) * 256 + x[i]) % 10

Quot10(x) == [i \in 1..Len(x) |-> (Rem10At(x, i + 1) * 256 + x[i]) \div 10]

DigitText(d) == <<"0", "1", "2", "3", "4", "5", "6", "7", "8", "9">>[d + 1]

RECURSIVE U64Display(_)
U64Display(x) ==
    IF \A i \in 1..Len(x) : Quot10(x)[i] = 0
    THEN <<DigitText(Rem10At(x, 1))>>
    ELSE Append(U64Display(Quot10(x)), DigitText(Rem10At(x, 1)))

----------------------------------------------------------------------------
(* Texts *)

INVALID_BYTE == "xFF"

REPLACEMENT_CHARACTER == "U+FFFD"

\* Path::to_string_lossy: a byte that is not UTF-8 becomes U+FFFD
ToStringLossy(path) ==
    [i \in 1..Len(path) |->
        IF path[i] = INVALID_BYTE THEN REPLACEMENT_CHARACTER ELSE path[i]]

IsValidUtf8(path) == \A i \in 1..Len(path) : path[i] # INVALID_BYTE

StartsWith(s, prefix) ==
    /\ Len(s) >= Len(prefix)
    /\ SubSeq(s, 1, Len(prefix)) = prefix

IsSeparator(c) == c = "/"

----------------------------------------------------------------------------
(* glob::Pattern, as host.rs and manifest.rs use it: Pattern::new compiles a
   pattern text to tokens or fails; Pattern::matches runs the tokens on a
   text with the default MatchOptions (case sensitive, no literal separator
   required, no literal leading dot required). *)

\* index of the first "]" of chars at or after position from, 0 if none
RECURSIVE FindClose(_, _)
FindClose(chars, from) ==
    IF from > Len(chars) THEN 0
    ELSE IF chars[from] = "]" THEN from
    ELSE FindClose(chars, from + 1)

\* length of the run of "*" that starts at position i
RECURSIVE StarRun(_, _)
StarRun(chars, i) ==
    IF i > Len(chars) \/ chars[i] # "*" THEN 0
    ELSE 1 + StarRun(chars, i + 1)

CompileError == [ok |-> FALSE, tokens |-> <<>>]

\* the loop of Pattern::new from position i (1-based), tokens compiled so far
RECURSIVE Compile(_, _, _)
Compile(chars, i, tokens) ==
    IF i > Len(chars) THEN [ok |-> TRUE, tokens |-> tokens]
    ELSE IF chars[i] = "?" THEN
        Compile(chars, i + 1, Append(tokens, [kind |-> "AnyChar"]))
    ELSE IF chars[i] = "*" THEN
        LET count == StarRun(chars, i)
            next  == i + count
        IN  IF count > 2 THEN CompileError
            ELSE IF count = 2 THEN
                \* ** must be a whole path component
                IF i = 1 \/ IsSeparator(chars[i - 1]) THEN
                    LET pushed ==
                            IF Len(tokens) > 1
                               /\ tokens[Len(tokens)].kind = "AnyRecursiveSequence"
                            THEN tokens
                            ELSE Append(tokens, [kind |-> "AnyRecursiveSequence"])
                    IN  IF next <= Len(chars) /\ IsSeparator(chars[next])
                        THEN Compile(chars, next + 1, pushed)
                        ELSE IF next > Len(chars)
                        THEN Compile(chars, next, pushed)
                        ELSE CompileError
                ELSE CompileError
            ELSE Compile(chars, next, Append(tokens, [kind |-> "AnySequence"]))
    ELSE IF chars[i] = "[" THEN
        IF i + 3 <= Len(chars) /\ chars[i + 1] = "!" THEN
            LET close == FindClose(chars, i + 3)
            IN  IF close = 0 THEN CompileError
                ELSE Compile(chars, close + 1,
                        Append(tokens, [kind |-> "AnyExcept",
                                        cs |-> {chars[k] : k \in (i + 2)..(close - 1)}]))
        ELSE IF i + 2 <= Len(chars) /\ chars[i + 1] # "!" THEN
            LET close == FindClose(chars, i + 2)
            IN  IF close = 0 THEN CompileError
                ELSE Compile(chars, close + 1,
                        Append(tokens, [kind |-> "AnyWithin",
                                        cs |-> {chars[k] : k \in (i + 1)..(close - 1)}]))
        ELSE CompileError
    ELSE Compile(chars, i + 1, Append(tokens, [kind |-> "Char", c |-> chars[i]]))

\* glob::Pattern::new
PatternNew(pattern) == Compile(pattern, 1, <<>>)

\* one token that is no wildcard sequence, against one character
TokenMatches(token, c) ==
    CASE token.kind = "AnyChar" -> TRUE
      [] token.kind = "AnyWithin" -> c \in token.cs
      [] token.kind = "AnyExcept" -> c \notin token.cs
      [] token.kind = "Char" -> c = token.c
      [] OTHER -> FALSE

\* Pattern::matches_from: tokens from ti on against file from fi on
RECURSIVE MatchesFrom(_, _, _, _)
MatchesFrom(tokens, ti, file, fi) ==
    IF ti > Len(tokens) THEN fi > Len(file)
    ELSE IF tokens[ti].kind = "AnySequence" THEN
        \* the empty match, then each longer run of characters
        \E n \in fi..(Len(file) + 1) : MatchesFrom(tokens, ti + 1, file, n)
    ELSE IF tokens[ti].kind = "AnyRecursiveSequence" THEN
        \* the empty match, then each run that ends in a separator
        \/ MatchesFrom(tokens, ti + 1, file, fi)
        \/ \E n \in (fi + 1)..(Len(file) + 1) :
              /\ IsSeparator(file[n - 1])
              /\ MatchesFrom(tokens, ti + 1, file, n)
    ELSE /\ fi <= Len(file)
         /\ TokenMatches(tokens[ti], file[fi])
         /\ MatchesFrom(tokens, ti + 1, file, fi + 1)

\* glob::Pattern::matches of a compiled pattern
PatternMatches(compiled, text) == MatchesFrom(compiled.tokens, 1, text, 1)

----------------------------------------------------------------------------
(* trace.rs: event kinds and reasons *)

\* impl Display for EventType
EventTypeDisplay(event_type) ==
    CASE event_type = "CapCall" -> "cap.call"
      [] event_type = "CapError" -> "cap.error"

\* CapEventSubtypeDisplay with the texts of two reasons swapped
CapEventSubtypeDisplaySwapped(subtype) ==
    CASE subtype = "InvalidPath" -> "invalid_path"
      [] subtype = "NoFsCapability" -> "no_read_patterns"
      [] subtype = "NoReadPatterns" -> "no_fs_capability"
      [] subtype = "GlobMismatch" -> "glob_mismatch"
      [] subtype = "InvalidGlob" -> "invalid_glob"

\* impl Display for CapEventSubtype
CapEventSubtypeDisplay(subtype) ==
    CASE subtype = "InvalidPath" -> "invalid_path"
      [] subtype = "NoFsCapability" -> "no_fs_capability"
      [] subtype = "NoReadPatterns" -> "no_read_patterns"
      [] subtype = "GlobMismatch" -> "glob_mismatch"
      [] subtype = "InvalidGlob" -> "invalid_glob"

\* EventTypeFrom that takes both glob reasons for calls
EventTypeFromGlobReasons(subtype) ==
    IF subtype \in {"GlobMismatch", "InvalidGlob"} THEN "CapCall" ELSE "CapError"

\* EventTypeFrom without the GlobMismatch arm
EventTypeFromAllErrors(subtype) == "CapError"

\* impl From<CapEventSubtype> for EventType
EventTypeFrom(subtype) ==
    IF subtype = "GlobMismatch" THEN "CapCall" ELSE "CapError"

\* struct TraceEvent
TraceEvent(run_id, seq, event_type, input, outcome, ts_seed) ==
    [run_id |-> run_id, seq |-> seq, event_type |-> event_type,
     input |-> input, outcome |-> outcome, ts_seed |-> ts_seed]

\* the record log_trace_event hands to tracing's info!
LogRecord(seq, event_type, input, outcome, ts_seed, plugin) ==
    [seq |-> seq, ts_seed |-> ts_seed,
     event_type |-> EventTypeDisplay(event_type),
     input |-> input, outcome |-> outcome, plugin |-> plugin]

\* serde's name of an EventType variant (rename_all = "snake_case")
EventTypeSerializeDotted(event_type) ==
    CASE event_type = "CapCall" -> "cap.call"
      [] event_type = "CapError" -> "cap.error"

EventTypeSerialize(event_type) ==
    CASE event_type = "CapCall" -> "cap_call"
      [] event_type = "CapError" -> "cap_error"

\* serde's reading of a variant name: Some(variant), None for an unknown name
EventTypeDeserialize(name) ==
    CASE name = "cap_call" -> Some("CapCall")
      [] name = "cap_error" -> Some("CapError")
      [] OTHER -> None

\* JSON values: a kind and what it holds
JsonString(text) == [json |-> "string", v |-> text]

JsonNumber(n) == [json |-> "number", v |-> n]

JsonBool(b) == [json |-> "bool", v |-> b]

\* #[derive(Serialize)] of TraceEvent: the object's members in field order
SerializeEvent(e) ==
    << <<"run_id", JsonString(e.run_id)>>,
       <<"seq", JsonNumber(e.seq)>>,
       <<"event_type", JsonString(EventTypeSerialize(e.event_type))>>,
       <<"input", JsonString(e.input)>>,
       <<"outcome", JsonBool(e.outcome)>>,
       <<"ts_seed", JsonNumber(e.ts_seed)>> >>

\* serde_json::to_string_pretty(trace): the JSON array of the events
ToStringPretty(trace) ==
    [json |-> "array", v |-> [i \in 1..Len(trace) |-> SerializeEvent(trace[i])]]

\* the value of member name of a JSON object, None when it has no such member
Member(obj, name) ==
    LET at == {i \in 1..Len(obj) : obj[i][1] = name}
    IN  IF at = {} THEN None ELSE Some(obj[CHOOSE i \in at : TRUE][2])

\* a member of the kind a field needs
HasMember(obj, name, kind) ==
    /\ Member(obj, name) # None
    /\ Member(obj, name)[1].json = kind

\* #[derive(Deserialize)] of TraceEvent: Some(event), None when a member is
\* missing, of another kind, or names no EventType variant
DeserializeEvent(obj) ==
    IF /\ HasMember(obj, "run_id", "string")
       /\ HasMember(obj, "seq", "number")
       /\ HasMember(obj, "event_type", "string")
       /\ EventTypeDeserialize(Member(obj, "event_type")[1].v) # None
       /\ HasMember(obj, "input", "string")
       /\ HasMember(obj, "outcome", "bool")
       /\ HasMember(obj, "ts_seed", "number")
    THEN Some(TraceEvent(Member(obj, "run_id")[1].v,
                         Member(obj, "seq")[1].v,
                         EventTypeDeserialize(Member(obj, "event_type")[1].v)[1],
                         Member(obj, "input")[1].v,
                         Member(obj, "outcome")[1].v,
                         Member(obj, "ts_seed")[1].v))
    ELSE None

\* serde_json::from_str::<Vec<TraceEvent>>
FromStr(doc) ==
    IF doc.json = "array" /\ \A i \in 1..Len(doc.v) : DeserializeEvent(doc.v[i]) # None
    THEN [ok |-> TRUE, trace |-> [i \in 1..Len(doc.v) |-> DeserializeEvent(doc.v[i])[1]]]
    ELSE [ok |-> FALSE, trace |-> <<>>]

\* finalize_trace: to_string_pretty of a Vec<TraceEvent> cannot fail
FinalizeTrace(trace) == ToStringPretty(trace)

\* save_trace: the file after the call and the result; io_ok is whether
\* fs::write succeeds
SaveTrace(trace, f, io_ok) ==
    IF io_ok THEN [file |-> Some(ToStringPretty(trace)), result |-> "Ok(())"]
    ELSE [file |-> f, result |-> "Err(Io)"]

\* load_trace of the file: Err(Io) without a file, Err(Serialize) on bad JSON
LoadTrace(f) ==
    IF f = None THEN [result |-> "Err(Io)", trace |-> <<>>]
    ELSE IF ~FromStr(f[1]).ok THEN [result |-> "Err(Serialize)", trace |-> <<>>]
    ELSE [result |-> "Ok", trace |-> FromStr(f[1]).trace]

\* format!("{:x}", Sha256(text)): collision free
Sha256Hex(text) == [sha256_hex_of |-> text]

\* SigningKey::verifying_key
VerifyingKey(keypair) == [verifying_key_of |-> keypair]

\* SigningKey::sign(message): a signature only the key's public key verifies
Ed25519Sign(keypair, message) == [signer |-> VerifyingKey(keypair), message |-> message]

\* VerifyingKey::verify(message, signature)
Ed25519Verify(pubkey, message, signature) ==
    /\ signature.signer = pubkey
    /\ signature.message = message

\* base64 STANDARD encode and decode of the signature bytes
Base64Encode(bytes) == [base64_of |-> bytes]

Base64Decode(text) == text.base64_of

\* SignedTrace::new
SignedTraceNew(run_id, manifest_hash, trace_json, signature) ==
    [run_id |-> run_id, manifest_hash |-> manifest_hash,
     trace_json |-> trace_json, signature |-> Base64Encode(signature)]

----------------------------------------------------------------------------
(* manifest.rs *)

FsCapability(read, write) == [read |-> read, write |-> write]

CapabilityManifest(plugin, version, fs, issued_by) ==
    [plugin |-> plugin, version |-> version,
     capabilities |-> [fs |-> fs], issued_by |-> issued_by]

\* serde_json::to_string of an Option<Vec<String>>
PatternsToJson(patterns) ==
    IF patterns = None THEN [json |-> "null", v |-> <<>>]
    ELSE [json |-> "array", v |-> [i \in 1..Len(patterns[1]) |-> JsonString(patterns[1][i])]]

\* ValidatePatterns that compiles the first read pattern only
ValidatePatternsFirstOnly(read_patterns, i) ==
    IF i > Len(read_patterns) THEN [result |-> "Ok(())"]
    ELSE IF ~PatternNew(read_patterns[i]).ok
         THEN [result |-> "Err(InvalidGlob)", idx |-> i - 1,
               pattern |-> read_patterns[i], err |-> "PatternError"]
         ELSE [result |-> "Ok(())"]

\* the loop of validate over the read patterns from position i (1-based);
\* the reported idx counts from 0
RECURSIVE ValidatePatterns(_, _)
ValidatePatterns(read_patterns, i) ==
    IF i > Len(read_patterns) THEN [result |-> "Ok(())"]
    ELSE IF ~PatternNew(read_patterns[i]).ok
         THEN [result |-> "Err(InvalidGlob)", idx |-> i - 1,
               pattern |-> read_patterns[i], err |-> "PatternError"]
         ELSE ValidatePatterns(read_patterns, i + 1)

ValidateVersionFirst(m) ==
    IF m.version = "" THEN [result |-> "Err(InvalidVersion)"]
    ELSE IF m.plugin = "" THEN [result |-> "Err(InvalidPlugin)"]
    ELSE IF m.issued_by = "" THEN [result |-> "Err(InvalidIssuer)"]
    ELSE IF m.capabilities.fs # None /\ m.capabilities.fs[1].read # None
         THEN ValidatePatterns(m.capabilities.fs[1].read[1], 1)
         ELSE [result |-> "Ok(())"]

\* CapabilityManifest::validate
Validate(m) ==
    IF m.plugin = "" THEN [result |-> "Err(InvalidPlugin)"]
    ELSE IF m.version = "" THEN [result |-> "Err(InvalidVersion)"]
    ELSE IF m.issued_by = "" THEN [result |-> "Err(InvalidIssuer)"]
    ELSE IF m.capabilities.fs # None /\ m.capabilities.fs[1].read # None
         THEN ValidatePatterns(m.capabilities.fs[1].read[1], 1)
         ELSE [result |-> "Ok(())"]

\* serde_json::to_string(&manifest): the members in field order
ManifestToString(m) ==
    << <<"plugin", JsonString(m.plugin)>>,
       <<"version", JsonString(m.version)>>,
       <<"capabilities",
         IF m.capabilities.fs = None THEN << <<"fs", [json |-> "null", v |-> <<>>]>> >>
         ELSE << <<"fs", << <<"read", PatternsToJson(m.capabilities.fs[1].read)>>,
                            <<"write", PatternsToJson(m.capabilities.fs[1].write)>> >> >> >> >>,
       <<"issued_by", JsonString(m.issued_by)>> >>

----------------------------------------------------------------------------
(* host.rs *)

\* HostState::new
HostStateNew(manifest, seed, keypair) ==
    [manifest |-> manifest,
     trace |-> <<>>,
     seed |-> seed,
     keypair |-> keypair,
     pubkey |-> VerifyingKey(keypair),
     run_id |-> <<"captra-run-">> \o U64Display(seed),
     manifest_hash |-> Sha256Hex(ManifestToString(manifest))]

\* the seq the next pushed event gets: u64::try_from(len).map_or(1, |len| len + 1)
NextSeq(h) == Len(h.trace) + 1

\* TsSeed with the signing key mixed into the generator's seed
TsSeedKeyed(h, seq) ==
    StdRngGen(<<WrappingMul(h.seed, PRIME_MULTIPLIER + seq), h.keypair>>)

\* TsSeed that leaves seq out of the mixed seed
TsSeedNoSeq(h, seq) == StdRngGen(WrappingMul(h.seed, PRIME_MULTIPLIER))

\* TsSeed that adds seq after the multiplication: seed * 314159 + seq
TsSeedAddSeq(h, seq) ==
    StdRngGen([i \in 1..8 |->
        LET m == WrappingMul(h.seed, PRIME_MULTIPLIER)
        IN  IF i = 1 THEN (m[1] + seq) % 256 ELSE m[i]])

\* the ts_seed drawn for seq under the seed of h
TsSeed(h, seq) == StdRngGen(WrappingMul(h.seed, PRIME_MULTIPLIER + seq))

\* the event log_cap_error pushes; its input is format!("{event_subtype}: {reason}")
CapErrorEventOfPlugin(h, seq, event_subtype, reason, ts_seed) ==
    TraceEvent(<<h.manifest.plugin>>, seq, EventTypeFrom(event_subtype),
               <<CapEventSubtypeDisplay(event_subtype), ": ">> \o reason,
               FALSE, ts_seed)

CapErrorEventOutcomeOfKind(h, seq, event_subtype, reason, ts_seed) ==
    TraceEvent(h.run_id, seq, EventTypeFrom(event_subtype),
               <<CapEventSubtypeDisplay(event_subtype), ": ">> \o reason,
               EventTypeFrom(event_subtype) = "CapCall", ts_seed)

CapErrorEventNoReason(h, seq, event_subtype, reason, ts_seed) ==
    TraceEvent(h.run_id, seq, EventTypeFrom(event_subtype),
               <<CapEventSubtypeDisplay(event_subtype)>>,
               FALSE, ts_seed)

CapErrorEvent(h, seq, event_subtype, reason, ts_seed) ==
    TraceEvent(h.run_id, seq, EventTypeFrom(event_subtype),
               <<CapEventSubtypeDisplay(event_subtype), ": ">> \o reason,
               FALSE, ts_seed)

\* LogCapError that puts the event at the head of the trace
LogCapErrorPrepend(st, event_subtype, reason, path_str) ==
    LET h == st.host
        seq == NextSeq(h)
        ts_seed == TsSeed(h, seq)
        event_type == EventTypeFrom(event_subtype)
    IN  [host |-> [h EXCEPT !.trace =
                      <<CapErrorEvent(h, seq, event_subtype, reason, ts_seed)>> \o @],
         emitted |-> Append(st.emitted,
                      LogRecord(seq, event_type, path_str, FALSE, ts_seed, h.manifest.plugin))]

\* HostState::log_cap_error on st = [host, emitted]: one event pushed, one record logged
LogCapError(st, event_subtype, reason, path_str) ==
    LET h == st.host
        seq == NextSeq(h)
        ts_seed == TsSeed(h, seq)
        event_type == EventTypeFrom(event_subtype)
    IN  [host |-> [h EXCEPT !.trace =
                      Append(@, CapErrorEvent(h, seq, event_subtype, reason, ts_seed))],
         emitted |-> Append(st.emitted,
                      LogRecord(seq, event_type, path_str, FALSE, ts_seed, h.manifest.plugin))]

\* AnyPattern that gives up at the first pattern that fails to compile
RECURSIVE AnyPatternAbort(_, _, _, _)
AnyPatternAbort(st, read_patterns, i, path_str) ==
    IF i > Len(read_patterns) THEN [st |-> st, is_allowed |-> FALSE]
    ELSE LET compiled == PatternNew(read_patterns[i])
         IN  IF ~compiled.ok
             THEN [st |-> LogCapError(st, "InvalidGlob", read_patterns[i], path_str),
                   is_allowed |-> FALSE]
             ELSE IF PatternMatches(compiled, path_str)
             THEN [st |-> st, is_allowed |-> TRUE]
             ELSE AnyPatternAbort(st, read_patterns, i + 1, path_str)

\* AnyPattern that skips a pattern that fails to compile without recording it
RECURSIVE AnyPatternSilent(_, _, _, _)
AnyPatternSilent(st, read_patterns, i, path_str) ==
    IF i > Len(read_patterns) THEN [st |-> st, is_allowed |-> FALSE]
    ELSE LET compiled == PatternNew(read_patterns[i])
         IN  IF compiled.ok /\ PatternMatches(compiled, path_str)
             THEN [st |-> st, is_allowed |-> TRUE]
             ELSE AnyPatternSilent(st, read_patterns, i + 1, path_str)

\* AnyPattern that evaluates every pattern, also those after a match
RECURSIVE AnyPatternExhaustive(_, _, _, _)
AnyPatternExhaustive(st, read_patterns, i, path_str) ==
    IF i > Len(read_patterns) THEN [st |-> st, is_allowed |-> FALSE]
    ELSE LET compiled == PatternNew(read_patterns[i])
             rest == AnyPatternExhaustive(
                         IF compiled.ok THEN st
                         ELSE LogCapError(st, "InvalidGlob", read_patterns[i], path_str),
                         read_patterns, i + 1, path_str)
         IN  [st |-> rest.st,
              is_allowed |-> \/ rest.is_allowed
                             \/ (compiled.ok /\ PatternMatches(compiled, path_str))]

\* AnyPattern that evaluates the first pattern only
AnyPatternFirstOnly(st, read_patterns, i, path_str) ==
    IF i > Len(read_patterns) THEN [st |-> st, is_allowed |-> FALSE]
    ELSE LET compiled == PatternNew(read_patterns[i])
         IN  IF ~compiled.ok
             THEN [st |-> LogCapError(st, "InvalidGlob", read_patterns[i], path_str),
                   is_allowed |-> FALSE]
             ELSE [st |-> st, is_allowed |-> PatternMatches(compiled, path_str)]

\* read_patterns.iter().any(..) from pattern i on: stops at the first match
RECURSIVE AnyPattern(_, _, _, _)
AnyPattern(st, read_patterns, i, path_str) ==
    IF i > Len(read_patterns) THEN [st |-> st, is_allowed |-> FALSE]
    ELSE LET compiled == PatternNew(read_patterns[i])
         IN  IF ~compiled.ok
             THEN AnyPattern(LogCapError(st, "InvalidGlob", read_patterns[i], path_str),
                             read_patterns, i + 1, path_str)
             ELSE IF PatternMatches(compiled, path_str)
             THEN [st |-> st, is_allowed |-> TRUE]
             ELSE AnyPattern(st, read_patterns, i + 1, path_str)

\* RejectInvalidPath that records the rejection like the other errors
RejectInvalidPathLogged(st, path_str) ==
    LET st1 == LogCapError(st, "InvalidPath", <<"empty path">>, path_str)
    IN  [host |-> st1.host, result |-> "Err(InvalidPath)", emitted |-> st1.emitted]

\* the early return on an empty path_str: nothing pushed, nothing logged
RejectInvalidPath(st, path_str) ==
    [host |-> st.host, result |-> "Err(InvalidPath)", emitted |-> st.emitted]

\* fs.as_ref().and_then(|fs| fs.read.clone())
ReadPatternsOps(fs) == IF fs = None THEN None ELSE fs[1].read

\* HasReadPatterns without the is_empty guard
HasReadPatternsSome(read_patterns_ops) == read_patterns_ops # None

\* the match arm Some(v) if !v.is_empty()
HasReadPatterns(read_patterns_ops) ==
    /\ read_patterns_ops # None
    /\ read_patterns_ops[1] # <<>>

\* AllowEvent built like an error event: formatted input, outcome false
AllowEventAsError(h, seq, path_str, is_allowed, ts_seed) ==
    TraceEvent(h.run_id, seq, "CapCall", <<"allowed", ": ">> \o path_str, FALSE, ts_seed)

\* the event pushed on the success path
AllowEvent(h, seq, path_str, is_allowed, ts_seed) ==
    TraceEvent(h.run_id, seq, "CapCall", path_str, is_allowed, ts_seed)

\* ExecutePlugin that looks for the fs capability before it looks at the path
ExecutePluginCapabilityFirst(h, path) ==
    LET path_str == ToStringLossy(path)
        st0 == [host |-> h, emitted |-> <<>>]
        fs == h.manifest.capabilities.fs
    IN  IF fs = None THEN
            LET st == LogCapError(st0, "NoFsCapability", <<"missing fs cap">>, path_str)
            IN  [host |-> st.host, result |-> "Err(NoFsCapability)", emitted |-> st.emitted]
        ELSE IF path_str = <<>> THEN
            RejectInvalidPath(st0, path_str)
        ELSE IF ~HasReadPatterns(ReadPatternsOps(fs)) THEN
            LET st == LogCapError(st0, "NoReadPatterns", <<"empty read patterns">>, path_str)
            IN  [host |-> st.host, result |-> "Err(NoReadPatterns)", emitted |-> st.emitted]
        ELSE
            LET read_patterns == ReadPatternsOps(fs)[1]
                seq == NextSeq(h)
                ts_seed == TsSeed(h, seq)
                any == AnyPattern(st0, read_patterns, 1, path_str)
            IN  IF ~any.is_allowed THEN
                    LET st == LogCapError(any.st, "GlobMismatch",
                                          <<"no matching pattern">>, path_str)
                    IN  [host |-> st.host, result |-> "Err(GlobMismatch)",
                         emitted |-> st.emitted]
                ELSE
                    LET h1 == any.st.host
                    IN  [host |-> [h1 EXCEPT !.trace =
                                     Append(@, AllowEvent(h1, seq, path_str,
                                                          any.is_allowed, ts_seed))],
                         result |-> "Ok(true)",
                         emitted |-> Append(any.st.emitted,
                                     LogRecord(seq, "CapCall", path_str, TRUE, ts_seed,
                                               h1.manifest.plugin))]

\* HostState::execute_plugin: the host after the call, the result, the records logged
ExecutePlugin(h, path) ==
    LET path_str == ToStringLossy(path)
        st0 == [host |-> h, emitted |-> <<>>]
        fs == h.manifest.capabilities.fs
    IN  IF path_str = <<>> THEN
            RejectInvalidPath(st0, path_str)
        ELSE IF fs = None THEN
            LET st == LogCapError(st0, "NoFsCapability", <<"missing fs cap">>, path_str)
            IN  [host |-> st.host, result |-> "Err(NoFsCapability)", emitted |-> st.emitted]
        ELSE IF ~HasReadPatterns(ReadPatternsOps(fs)) THEN
            LET st == LogCapError(st0, "NoReadPatterns", <<"empty read patterns">>, path_str)
            IN  [host |-> st.host, result |-> "Err(NoReadPatterns)", emitted |-> st.emitted]
        ELSE
            LET read_patterns == ReadPatternsOps(fs)[1]
                seq == NextSeq(h)
                ts_seed == TsSeed(h, seq)
                any == AnyPattern(st0, read_patterns, 1, path_str)
            IN  IF ~any.is_allowed THEN
                    LET st == LogCapError(any.st, "GlobMismatch",
                                          <<"no matching pattern">>, path_str)
                    IN  [host |-> st.host, result |-> "Err(GlobMismatch)",
                         emitted |-> st.emitted]
                ELSE
                    LET h1 == any.st.host
                    IN  [host |-> [h1 EXCEPT !.trace =
                                     Append(@, AllowEvent(h1, seq, path_str,
                                                          any.is_allowed, ts_seed))],
                         result |-> "Ok(true)",
                         emitted |-> Append(any.st.emitted,
                                     LogRecord(seq, "CapCall", path_str, TRUE, ts_seed,
                                               h1.manifest.plugin))]

\* HostState::sign_current_trace (&mut self): the host after the call and
\* the SignedTrace returned
SignCurrentTraceOfFirstEvent(h) ==
    LET trace_json == FinalizeTrace(SubSeq(h.trace, 1, IF h.trace = <<>> THEN 0 ELSE 1))
        trace_hash == Sha256Hex(trace_json)
        signature == Ed25519Sign(h.keypair, trace_hash)
    IN  [host |-> h,
         signed |-> SignedTraceNew(h.run_id, h.manifest_hash, trace_json, signature)]

SignCurrentTraceOfManifest(h) ==
    LET trace_json == FinalizeTrace(h.trace)
        trace_hash == Sha256Hex(trace_json)
        signature == Ed25519Sign(h.keypair, h.manifest_hash)
    IN  [host |-> h,
         signed |-> SignedTraceNew(h.run_id, h.manifest_hash, trace_json, signature)]

SignCurrentTraceMixedRunId(h) ==
    LET trace_json == FinalizeTrace(h.trace)
        trace_hash == Sha256Hex(trace_json)
        signature == Ed25519Sign(h.keypair, trace_hash)
        run_id == <<"captra-run-">> \o U64Display(WrappingMul(h.seed, PRIME_MULTIPLIER))
    IN  [host |-> h,
         signed |-> SignedTraceNew(run_id, h.manifest_hash, trace_json, signature)]

SignCurrentTraceTaking(h) ==
    LET trace_json == FinalizeTrace(h.trace)
        trace_hash == Sha256Hex(trace_json)
        signature == Ed25519Sign(h.keypair, trace_hash)
    IN  [host |-> [h EXCEPT !.trace = <<>>],
         signed |-> SignedTraceNew(h.run_id, h.manifest_hash, trace_json, signature)]

SignCurrentTrace(h) ==
    LET trace_json == FinalizeTrace(h.trace)
        trace_hash == Sha256Hex(trace_json)
        signature == Ed25519Sign(h.keypair, trace_hash)
    IN  [host |-> h,
         signed |-> SignedTraceNew(h.run_id, h.manifest_hash, trace_json, signature)]

\* HostState::get_trace_json
GetTraceJson(h) == FinalizeTrace(h.trace)

\* HostState::save_current_trace
SaveCurrentTrace(h, f, io_ok) == SaveTrace(h.trace, f, io_ok)

----------------------------------------------------------------------------
(* The sandbox bridge: the host functions read_file and status_allowed *)

\* HostStatus as the integer the guest sees: a tri-state encoding, the
\* variants numbered in order, which is the one under which the guest's
\* i32.eq result 1 of an allowed call equals HostStatus::Denied as i32
HostStatusCode(status) ==
    CASE status = "Allowed" -> 0
      [] status = "Denied" -> 1
      [] status = "Error" -> 2

\* the host function status_allowed
StatusAllowed == HostStatusCode("Allowed")

\* the status a result of execute_plugin maps to
StatusOf(result) ==
    CASE result = "Ok(true)" -> "Allowed"
      [] result = "Err(GlobMismatch)" -> "Denied"
      [] OTHER -> "Error"

\* the host function read_file on the path copied out of guest memory: one
\* execute_plugin call, its result mapped to a status code
ReadFile(h, path) ==
    LET r == ExecutePlugin(h, path)
    IN  [host |-> r.host, result |-> r.result, emitted |-> r.emitted,
         status |-> HostStatusCode(StatusOf(r.result))]

----------------------------------------------------------------------------
(* Inputs *)

\* read patterns a manifest may declare
Patterns ==
    { <<"a">>, <<"?">>, <<"a", "/", "*">>, <<"[">>, <<"*", "*", "a">> }

\* the sequences of up to n different elements of S
RECURSIVE DistinctSeqsUpTo(_, _)
DistinctSeqsUpTo(S, n) ==
    IF n = 0 THEN {<<>>}
    ELSE LET shorter == DistinctSeqsUpTo(S, n - 1)
         IN  shorter \cup
             UNION {{Append(s, x) : x \in S \ {s[i] : i \in 1..Len(s)}} :
                        s \in {t \in shorter : Len(t) = n - 1}}

\* Option<FsCapability> values: none, no read field, a read list of up to
\* MaxReadLen different patterns
FsOptions ==
    {None, Some(FsCapability(None, None))}
    \cup {Some(FsCapability(Some(r), Some(<<>>))) : r \in DistinctSeqsUpTo(Patterns, MaxReadLen)}

Manifests ==
    {CapabilityManifest("formatter-v1", "0.1", fs, "dev-team") : fs \in FsOptions}

Seeds == {U64Test, U64High}

\* paths a guest may ask for: empty, matching, not matching, not UTF-8
Paths ==
    { <<>>, <<"a">>, <<"a", "/", "b">>, <<"b">>, <<INVALID_BYTE>> }

----------------------------------------------------------------------------
(* The state machine: one engine and a twin built from the same manifest and
   seed with another signing key, both driven by the same calls. *)

Init ==
    \E m \in Manifests, seed \in Seeds :
        /\ host = HostStateNew(m, seed, "keypair1")
        /\ twin = HostStateNew(m, seed, "keypair2")
        /\ calls = <<>>
        /\ log = <<>>
        /\ disk = None
        /\ exported = <<>>
        /\ ret = [op |-> "new", value |-> "HostState"]

\* one execute_plugin(path) call
Execute(path) ==
    /\ Len(calls) < MaxCalls
    /\ LET r == ExecutePlugin(host, path)
           t == ExecutePlugin(twin, path)
       IN  /\ host' = r.host
           /\ twin' = t.host
           /\ log' = log \o r.emitted
           /\ calls' = Append(calls, [op |-> "execute_plugin", path |-> path,
                                      result |-> r.result,
                                      before |-> Len(host.trace),
                                      after |-> Len(r.host.trace)])
           /\ ret' = [op |-> "execute_plugin", value |-> r.result]
           /\ UNCHANGED <<disk, exported>>

Next == \E path \in Paths : Execute(path)

Spec == Init /\ [][Next]_vars

----------------------------------------------------------------------------
(* The state machine with every operation of the engine, the trace file and
   the sandbox bridge, on manifests with at most one read pattern and on the
   two-pattern list that starts with a malformed pattern. *)

OpsManifests ==
    {m \in Manifests :
        \/ m.capabilities.fs = None
        \/ m.capabilities.fs[1].read = None
        \/ Len(m.capabilities.fs[1].read[1]) <= 1
        \/ m.capabilities.fs[1].read[1] = << <<"[">>, <<"a">> >>}

\* the paths the operations are driven with
OpsPaths == {<<>>, <<"a">>, <<"b">>}

InitOps ==
    \E m \in OpsManifests :
        /\ host = HostStateNew(m, U64Test, "keypair1")
        /\ twin = HostStateNew(m, U64Test, "keypair2")
        /\ calls = <<>>
        /\ log = <<>>
        /\ disk = None
        /\ exported = <<>>
        /\ ret = [op |-> "new", value |-> "HostState"]

\* one execute_plugin call of a run that also signs, saves and loads
OpsExecute(path) ==
    /\ Len(calls) < MaxOpsCalls
    /\ Execute(path)

\* one read_file call of the guest
GuestReadFile(path) ==
    /\ Len(calls) < MaxOpsCalls
    /\ LET r == ReadFile(host, path)
           t == ReadFile(twin, path)
       IN  /\ host' = r.host
           /\ twin' = t.host
           /\ log' = log \o r.emitted
           /\ calls' = Append(calls, [op |-> "execute_plugin", path |-> path,
                                      result |-> r.result,
                                      before |-> Len(host.trace),
                                      after |-> Len(r.host.trace)])
           /\ ret' = [op |-> "read_file", value |-> r.status]
           /\ UNCHANGED <<disk, exported>>

\* one sign_current_trace call
Sign ==
    LET r == SignCurrentTrace(host)
    IN  /\ host' = r.host
        /\ ret' = [op |-> "sign_current_trace", value |-> r.signed]
        /\ exported' = IF exported = <<>> THEN <<r.signed>>
                       ELSE IF exported[1] = r.signed THEN exported
                       ELSE <<r.signed, exported[1]>>
        /\ UNCHANGED <<twin, calls, log, disk>>

\* one get_trace_json call
GetJson ==
    /\ ret' = [op |-> "get_trace_json", value |-> GetTraceJson(host)]
    /\ UNCHANGED <<host, twin, calls, log, disk, exported>>

\* one save_current_trace call; the write succeeds or fails
Save(io_ok) ==
    LET r == SaveCurrentTrace(host, disk, io_ok)
    IN  /\ disk' = r.file
        /\ ret' = [op |-> "save_current_trace", value |-> r.result]
        /\ UNCHANGED <<host, twin, calls, log, exported>>

\* one load_trace call on the trace file
Load ==
    /\ ret' = [op |-> "load_trace", value |-> LoadTrace(disk)]
    /\ UNCHANGED <<host, twin, calls, log, disk, exported>>

NextOps ==
    \/ \E path \in OpsPaths : OpsExecute(path)
    \/ \E path \in OpsPaths : GuestReadFile(path)
    \/ Sign
    \/ GetJson
    \/ \E io_ok \in BOOLEAN : Save(io_ok)
    \/ Load

SpecOps == InitOps /\ [][NextOps]_vars

----------------------------------------------------------------------------
(* Vocabulary of the properties *)

ErrResults ==
    {"Err(InvalidPath)", "Err(NoFsCapability)", "Err(NoReadPatterns)", "Err(GlobMismatch)"}

\* the read patterns a manifest declares, none when fs or read is absent
DeclaredRead(m) ==
    IF m.capabilities.fs = None \/ m.capabilities.fs[1].read = None THEN <<>>
    ELSE m.capabilities.fs[1].read[1]

Compiles(pattern) == PatternNew(pattern).ok

\* pattern i of the manifest compiles and matches the text
ValidMatch(m, i, text) ==
    /\ Compiles(DeclaredRead(m)[i])
    /\ PatternMatches(PatternNew(DeclaredRead(m)[i]), text)

\* some declared read pattern compiles and matches the text
Grants(m, text) == \E i \in 1..Len(DeclaredRead(m)) : ValidMatch(m, i, text)

\* the patterns evaluated for a text: up to the first valid match, else all
Evaluated(m, text) ==
    {i \in 1..Len(DeclaredRead(m)) : \A j \in 1..(i - 1) : ~ValidMatch(m, j, text)}

\* the evaluated patterns that fail to compile
InvalidEvaluated(m, text) == {i \in Evaluated(m, text) : ~Compiles(DeclaredRead(m)[i])}

\* the calls made so far that had a non-empty path
NonEmptyCalls == {k \in 1..Len(calls) : calls[k].path # <<>>}

\* the number of events call k appended, and the last of them
AppendedBy(k) == calls[k].after - calls[k].before

LastEventOf(k) == host.trace[calls[k].after]

PathText(k) == ToStringLossy(calls[k].path)

----------------------------------------------------------------------------
(* Properties *)

\* C1: a call with a non-empty path returns Ok(true) exactly when the manifest
\* has an fs capability with a non-empty read list of which some pattern
\* compiles and matches the path; every other call returns an Err.
C1_FailClosedGrant ==
    \A k \in NonEmptyCalls :
        /\ calls[k].result = "Ok(true)" <=> Grants(host.manifest, PathText(k))
        /\ calls[k].result # "Ok(true)" => calls[k].result \in ErrResults

\* an allowed and a denied call on a manifest that also holds a malformed pattern
C1_Witness ==
    /\ \E i \in 1..Len(DeclaredRead(host.manifest)) : ~Compiles(DeclaredRead(host.manifest)[i])
    /\ \E k \in NonEmptyCalls : calls[k].result = "Ok(true)"
    /\ \E k \in NonEmptyCalls : calls[k].result = "Err(GlobMismatch)"

\* C2: the i-th event of the trace has seq = i, so the seq values are 1, 2, 3, ...
\* without gap or repeat and the trace length is the highest seq.
C2_SeqIsPosition ==
    \A i \in 1..Len(host.trace) : host.trace[i].seq = i

\* C3 as stated: every call with a non-empty path makes the trace exactly one
\* event longer.
C3_ExactlyOneEvent ==
    \A k \in NonEmptyCalls : AppendedBy(k) = 1

\* C3 amended: a call with a non-empty path appends one invalid_glob cap.error
\* event for each evaluated read pattern that fails to compile, and after them
\* exactly one decision event; the trace grows by exactly 1 when no evaluated
\* pattern fails to compile.
C3_OneDecisionEvent ==
    \A k \in NonEmptyCalls :
        LET bad == Cardinality(InvalidEvaluated(host.manifest, PathText(k)))
        IN  /\ AppendedBy(k) = 1 + bad
            /\ \A i \in (calls[k].before + 1)..(calls[k].after - 1) :
                  /\ host.trace[i].event_type = "CapError"
                  /\ StartsWith(host.trace[i].input, <<"invalid_glob", ": ">>)
            /\ ~StartsWith(LastEventOf(k).input, <<"invalid_glob", ": ">>)

\* one call appended a single event, another appended two
C3_Witness ==
    /\ \E k \in NonEmptyCalls : AppendedBy(k) = 1
    /\ \E k \in NonEmptyCalls : AppendedBy(k) >= 2

\* C4: when a read pattern matches the path the call returns Ok(true), and
\* the event it appends is a cap.call with outcome true whose input is the path.
C4_AllowBranch ==
    \A k \in NonEmptyCalls :
        Grants(host.manifest, PathText(k)) =>
            /\ calls[k].result = "Ok(true)"
            /\ LastEventOf(k).event_type = "CapCall"
            /\ EventTypeDisplay(LastEventOf(k).event_type) = "cap.call"
            /\ LastEventOf(k).outcome = TRUE
            /\ LastEventOf(k).input = PathText(k)

\* two allowed calls with different paths
C4_Witness ==
    \E k, j \in NonEmptyCalls :
        /\ calls[k].result = "Ok(true)"
        /\ calls[j].result = "Ok(true)"
        /\ calls[k].path # calls[j].path

\* C5: with a non-empty read list of which no pattern matches the path, the
\* call returns Err(GlobMismatch) and the last event it appends is a cap.call
\* with outcome false and an input that starts with "glob_mismatch: ".
C5_DenyBranch ==
    \A k \in NonEmptyCalls :
        (DeclaredRead(host.manifest) # <<>> /\ ~Grants(host.manifest, PathText(k))) =>
            /\ calls[k].result = "Err(GlobMismatch)"
            /\ AppendedBy(k) >= 1
            /\ EventTypeDisplay(LastEventOf(k).event_type) = "cap.call"
            /\ LastEventOf(k).outcome = FALSE
            /\ StartsWith(LastEventOf(k).input, <<"glob_mismatch", ": ">>)

\* a denied call on a manifest that declares read patterns
C5_Witness ==
    /\ DeclaredRead(host.manifest) # <<>>
    /\ \E k \in NonEmptyCalls : calls[k].result = "Err(GlobMismatch)"

\* C6: on a manifest without fs capability every call with a non-empty path
\* returns Err(NoFsCapability) and appends exactly one event: a cap.error with
\* outcome false whose input carries the reason code no_fs_capability.
C6_MissingCapability ==
    host.manifest.capabilities.fs = None =>
        \A k \in NonEmptyCalls :
            /\ calls[k].result = "Err(NoFsCapability)"
            /\ AppendedBy(k) = 1
            /\ EventTypeDisplay(LastEventOf(k).event_type) = "cap.error"
            /\ LastEventOf(k).outcome = FALSE
            /\ StartsWith(LastEventOf(k).input, <<"no_fs_capability", ": ">>)

\* two calls with a non-empty path on a manifest without fs capability
C6_Witness ==
    /\ host.manifest.capabilities.fs = None
    /\ Cardinality(NonEmptyCalls) >= 2

\* C7: when the fs capability exists and its read field is absent or an empty
\* list, every call with a non-empty path returns Err(NoReadPatterns) and
\* appends exactly one cap.error event with outcome false and reason code
\* no_read_patterns.
C7_NoReadPatterns ==
    (host.manifest.capabilities.fs # None /\ DeclaredRead(host.manifest) = <<>>) =>
        \A k \in NonEmptyCalls :
            /\ calls[k].result = "Err(NoReadPatterns)"
            /\ AppendedBy(k) = 1
            /\ EventTypeDisplay(LastEventOf(k).event_type) = "cap.error"
            /\ LastEventOf(k).outcome = FALSE
            /\ StartsWith(LastEventOf(k).input, <<"no_read_patterns", ": ">>)

\* a call on a manifest whose read field is the empty list
C7_Witness ==
    /\ host.manifest.capabilities.fs # None
    /\ host.manifest.capabilities.fs[1].read = Some(<<>>)
    /\ NonEmptyCalls # {}

\* C8: a call with the empty path returns Err(InvalidPath) and leaves the
\* engine and the log as they were, in any state and on any manifest; the
\* first event the call after it appends has seq = the trace length before the
\* empty-path call + 1.
C8_EmptyPath ==
    [][ /\ (calls' # calls /\ calls'[Len(calls')].path = <<>>) =>
              /\ calls'[Len(calls')].result = "Err(InvalidPath)"
              /\ host' = host
              /\ log' = log
        /\ (/\ calls # <<>>
            /\ calls[Len(calls)].path = <<>>
            /\ Len(host'.trace) > Len(host.trace)) =>
              host'.trace[Len(host.trace) + 1].seq = calls[Len(calls)].before + 1
      ]_vars

\* an empty-path call on a non-empty trace, followed by a call that appended
C8_Witness ==
    \E k \in 2..(Len(calls) - 1) :
        /\ calls[k].path = <<>>
        /\ calls[k].before >= 1
        /\ calls[k + 1].after > calls[k + 1].before

\* C9: a path that is not valid UTF-8 is rejected with Err(InvalidPath) and
\* appends no event.
C9_InvalidUtf8Rejected ==
    \A k \in 1..Len(calls) :
        ~IsValidUtf8(calls[k].path) =>
            /\ calls[k].result = "Err(InvalidPath)"
            /\ AppendedBy(k) = 0

\* C10: two engines with the same manifest and seed and different signing
\* keys, driven by the same calls, hold equal traces after every step.
C10_DeterminismAcrossKeys ==
    (/\ host.manifest = twin.manifest
     /\ host.seed = twin.seed
     /\ host.keypair # twin.keypair) =>
        /\ Len(host.trace) = Len(twin.trace)
        /\ \A i \in 1..Len(host.trace) : host.trace[i] = twin.trace[i]

\* both engines hold three events, an allowed one among them
C10_Witness ==
    /\ host.keypair # twin.keypair
    /\ Len(twin.trace) >= 3
    /\ \E i \in 1..Len(twin.trace) : twin.trace[i].outcome

\* C11: the ts_seed of every trace event is the value the generator draws when
\* seeded with seed * (314159 + seq) mod 2^64 for the event's own seq; path,
\* outcome, branch and signing key play no part, so events with equal seq
\* (in one engine or in the twin) carry equal ts_seed.
C11_TsSeedOfSeedAndSeq ==
    /\ \A i \in 1..Len(host.trace) :
          host.trace[i].ts_seed =
              StdRngGen(WrappingMul(host.seed, PRIME_MULTIPLIER + host.trace[i].seq))
    /\ \A i \in 1..Len(twin.trace) :
          twin.trace[i].ts_seed =
              StdRngGen(WrappingMul(host.seed, PRIME_MULTIPLIER + twin.trace[i].seq))
    /\ \A i \in 1..Len(host.trace), j \in 1..Len(twin.trace) :
          host.trace[i].seq = twin.trace[j].seq =>
              host.trace[i].ts_seed = twin.trace[j].ts_seed

\* a trace with an allowed event, a denied one and an error event
C11_Witness ==
    /\ \E i \in 1..Len(host.trace) : host.trace[i].outcome
    /\ \E i \in 1..Len(host.trace) :
          ~host.trace[i].outcome /\ host.trace[i].event_type = "CapCall"
    /\ \E i \in 1..Len(host.trace) : host.trace[i].event_type = "CapError"

\* the seed the generator was given for an event
MixedSeedOf(e) == e.ts_seed.seeded

\* the 64-bit zero
U64IsZero(x) == \A i \in 1..Len(x) : x[i] = 0

\* C12 as stated: under every seed, two events with different seq were given
\* different mixed seeds and carry different ts_seed values.
C12_SpreadForEverySeed ==
    \A i, j \in 1..Len(host.trace) :
        host.trace[i].seq # host.trace[j].seq =>
            /\ MixedSeedOf(host.trace[i]) # MixedSeedOf(host.trace[j])
            /\ host.trace[i].ts_seed # host.trace[j].ts_seed

\* C12 amended: two events with different seq were given the same mixed seed
\* exactly when seed * (seq1 - seq2) mod 2^64 = 0; so under an odd seed they
\* always differ, and under seed 0 or 2^63 they can coincide; events given the
\* same mixed seed carry the same ts_seed.
C12_SpreadUnlessProductWraps ==
    \A i, j \in 1..Len(host.trace) :
        host.trace[i].seq > host.trace[j].seq =>
            /\ (MixedSeedOf(host.trace[i]) = MixedSeedOf(host.trace[j]))
                  <=> U64IsZero(WrappingMul(host.seed,
                                            host.trace[i].seq - host.trace[j].seq))
            /\ (host.seed[1] % 2 = 1) =>
                  MixedSeedOf(host.trace[i]) # MixedSeedOf(host.trace[j])
            /\ MixedSeedOf(host.trace[i]) = MixedSeedOf(host.trace[j]) =>
                  host.trace[i].ts_seed = host.trace[j].ts_seed

\* three events with seq 1, 2, 3 under the odd seed
C12_Witness ==
    /\ host.seed = U64Test
    /\ Len(host.trace) >= 3
    /\ \A i \in 1..3 : host.trace[i].seq = i

----------------------------------------------------------------------------
(* The state machine of manifest validation: a deserialized manifest, any
   of its three texts possibly empty, and one validate call on it. *)

AnyManifests ==
    {CapabilityManifest(plugin, version, fs, issued_by) :
        plugin \in {"", "formatter-v1"}, version \in {"", "0.1"},
        fs \in FsOptions, issued_by \in {"", "dev-team"}}

InitManifest ==
    \E m \in AnyManifests :
        /\ ret = [op |-> "from_str", value |-> m]
        /\ host = None
        /\ twin = None
        /\ calls = <<>>
        /\ log = <<>>
        /\ disk = None
        /\ exported = <<>>

\* one validate call on the manifest
ValidateManifest ==
    /\ ret.op = "from_str"
    /\ ret' = [op |-> "validate",
               value |-> [manifest |-> ret.value, result |-> Validate(ret.value)]]
    /\ UNCHANGED <<host, twin, calls, log, disk, exported>>

NextManifest == ValidateManifest

SpecManifest == InitManifest /\ [][NextManifest]_vars

----------------------------------------------------------------------------
(* Vocabulary of the claims about the operations *)

\* the first sequence is the beginning of the second
IsPrefix(short, long) ==
    /\ Len(short) <= Len(long)
    /\ \A i \in 1..Len(short) : short[i] = long[i]

\* the step is a call of the operation
StepOf(op) == ret'.op = op

\* C13: Save/load round trip. A save_current_trace that succeeds writes a
\* file from which load_trace returns exactly the in-memory trace of the
\* moment of the save, whatever its length; only a successful save changes
\* the file, and a load_trace of the file returns what the last successful
\* save held, which is the beginning of the trace the engine has by then.
C13_SaveLoadRoundTrip ==
    [][ /\ (StepOf("save_current_trace") /\ ret'.value = "Ok(())")
            => LoadTrace(disk') = [result |-> "Ok", trace |-> host.trace]
        /\ disk' # disk
            => StepOf("save_current_trace") /\ ret'.value = "Ok(())"
        /\ (StepOf("load_trace") /\ disk # None)
            => /\ ret'.value.result = "Ok"
               /\ ret'.value.trace = FromStr(disk[1]).trace
               /\ IsPrefix(ret'.value.trace, host.trace) ]_vars

\* a trace with an error event and a call event was saved and loaded back
C13_Witness ==
    /\ ret.op = "load_trace"
    /\ ret.value.result = "Ok"
    /\ ret.value.trace = host.trace
    /\ \E i, j \in 1..Len(ret.value.trace) :
          /\ ret.value.trace[i].event_type = "CapError"
          /\ ret.value.trace[j].event_type = "CapCall"

\* the traces a tampering of the exported JSON can stand for: an event
\* dropped, an event repeated, an outcome flipped, an input rewritten
TamperedTraces(trace) ==
    {SubSeq(trace, 1, n) : n \in 0..Len(trace)}
    \cup {[trace EXCEPT ![i].outcome = ~@] : i \in 1..Len(trace)}
    \cup {[trace EXCEPT ![i].input = <<"b">>] : i \in 1..Len(trace)}
    \cup {[trace EXCEPT ![i].seq = @ + 1] : i \in 1..Len(trace)}
    \cup {Append(trace, trace[i]) : i \in 1..Len(trace)}

\* verification of a SignedTrace against a candidate trace_json, as a holder
\* of the engine's public key does it: the signed message is the hex text of
\* the SHA-256 of the JSON
VerifiesAgainst(pubkey, signed, trace_json) ==
    Ed25519Verify(pubkey, Sha256Hex(trace_json), Base64Decode(signed.signature))

\* C14: Signature validity and tamper evidence. The SignedTrace returned by
\* sign_current_trace holds the JSON of the current trace, its signature
\* verifies under the engine's public key against the hash of that JSON, and
\* it verifies against no JSON that differs from it, nor under another key.
C14_SignatureValidAndTamperEvident ==
    ret.op = "sign_current_trace" =>
        /\ ret.value.trace_json = FinalizeTrace(host.trace)
        /\ VerifiesAgainst(host.pubkey, ret.value, ret.value.trace_json)
        /\ \A t \in TamperedTraces(host.trace) :
              FinalizeTrace(t) # ret.value.trace_json
                  => ~VerifiesAgainst(host.pubkey, ret.value, FinalizeTrace(t))
        /\ ~VerifiesAgainst(twin.pubkey, ret.value, ret.value.trace_json)

\* a trace of two events or more has been signed
C14_Witness ==
    /\ ret.op = "sign_current_trace"
    /\ Len(host.trace) >= 2
    /\ \E t \in TamperedTraces(host.trace) : FinalizeTrace(t) # ret.value.trace_json

\* C15: Run and policy binding. run_id is "captra-run-" followed by the
\* decimal seed and manifest_hash is the hash of the manifest's JSON; no
\* call of execute_plugin, read_file, sign, save, get or load changes either,
\* and the SignedTrace a sign_current_trace call returns carries both.
C15_RunAndPolicyBinding ==
    [][ /\ host.run_id = <<"captra-run-">> \o U64Display(host.seed)
        /\ host.manifest_hash = Sha256Hex(ManifestToString(host.manifest))
        /\ host'.run_id = host.run_id
        /\ host'.manifest_hash = host.manifest_hash
        /\ StepOf("sign_current_trace")
            => /\ ret'.value.run_id = host.run_id
               /\ ret'.value.manifest_hash = host.manifest_hash ]_vars

\* a SignedTrace was returned after calls had grown the trace
C15_Witness ==
    /\ ret.op = "sign_current_trace"
    /\ Len(host.trace) >= 2
    /\ ret.value.run_id = <<"captra-run-", "1", "2", "3", "4", "5">>
    /\ ret.value.manifest_hash = host.manifest_hash

\* the positions, counted from 0, of the read patterns that do not compile
FailingPositions(m) ==
    {i - 1 : i \in {j \in 1..Len(DeclaredRead(m)) : ~PatternNew(DeclaredRead(m)[j]).ok}}

\* C16: Manifest validation result. validate returns Ok exactly when plugin,
\* version and issued_by are non-empty and every declared read pattern
\* compiles; otherwise the error is that of the first failing rule in the
\* order InvalidPlugin, InvalidVersion, InvalidIssuer, InvalidGlob, and an
\* InvalidGlob names the first read pattern that fails to compile and its
\* position.
C16_ValidateResult ==
    ret.op = "validate" =>
        LET m == ret.value.manifest
            r == ret.value.result
        IN  /\ r.result = "Ok(())"
                <=> /\ m.plugin # "" /\ m.version # "" /\ m.issued_by # ""
                    /\ FailingPositions(m) = {}
            /\ r.result = "Err(InvalidPlugin)" <=> m.plugin = ""
            /\ r.result = "Err(InvalidVersion)" <=> m.plugin # "" /\ m.version = ""
            /\ r.result = "Err(InvalidIssuer)"
                <=> m.plugin # "" /\ m.version # "" /\ m.issued_by = ""
            /\ r.result = "Err(InvalidGlob)"
                <=> /\ m.plugin # "" /\ m.version # "" /\ m.issued_by # ""
                    /\ FailingPositions(m) # {}
            /\ r.result = "Err(InvalidGlob)"
                => /\ r.idx \in FailingPositions(m)
                   /\ \A i \in FailingPositions(m) : r.idx <= i
                   /\ r.pattern = DeclaredRead(m)[r.idx + 1]

\* validate reported a malformed pattern that stands after a well-formed one
C16_Witness ==
    /\ ret.op = "validate"
    /\ ret.value.result.result = "Err(InvalidGlob)"
    /\ ret.value.result.idx = 1

\* C17: Only a validated manifest is enforced. Whenever the engine has
\* answered an execute_plugin call, validate of the engine's manifest
\* returns Ok.
C17_OnlyValidatedManifestEnforced ==
    calls # <<>> => Validate(host.manifest).result = "Ok(())"

\* the j-th smallest element of a set of numbers
NthOf(S, j) == CHOOSE b \in S : Cardinality({c \in S : c <= b}) = j

\* C18: Degrading on a malformed pattern. A call is not aborted by a read
\* pattern that fails to compile: for each such pattern evaluated, in the
\* order of the list, the call appends a cap.error event with outcome false
\* whose input is "invalid_glob: " followed by the pattern text; the pattern
\* counts as non-matching and the ones after it are evaluated, so the call
\* returns Ok(true) exactly when some pattern that compiles matches the path,
\* and Err(GlobMismatch) when patterns were declared and none does.
C18_MalformedPatternDegrades ==
    \A k \in NonEmptyCalls :
        LET m == host.manifest
            bad == InvalidEvaluated(m, PathText(k))
        IN  /\ AppendedBy(k) = Cardinality(bad) + 1
            /\ \A j \in 1..Cardinality(bad) :
                  LET e == host.trace[calls[k].before + j]
                  IN  /\ e.event_type = "CapError"
                      /\ e.outcome = FALSE
                      /\ e.input = <<"invalid_glob", ": ">> \o DeclaredRead(m)[NthOf(bad, j)]
            /\ calls[k].result = "Ok(true)" <=> Grants(m, PathText(k))
            /\ (DeclaredRead(m) # <<>> /\ ~Grants(m, PathText(k)))
                  => calls[k].result = "Err(GlobMismatch)"

\* a call met a malformed pattern, recorded it, and was granted by a later one
C18_Witness ==
    \E k \in NonEmptyCalls :
        /\ calls[k].result = "Ok(true)"
        /\ AppendedBy(k) >= 2
        /\ host.trace[calls[k].before + 1].input = <<"invalid_glob", ": ", "[">>

\* C19: Read-only operations keep the engine state. A sign_current_trace, a
\* get_trace_json or a save_current_trace call, the write succeeding or not,
\* leaves the trace, seed, run_id, manifest_hash, manifest and keys as they
\* were, so the next execute_plugin call is given the same seq and ts_seed
\* and does what it would have done without the call.
C19_ReadOnlyOperations ==
    [][ (StepOf("sign_current_trace") \/ StepOf("get_trace_json")
            \/ StepOf("save_current_trace"))
        => /\ host'.trace = host.trace
           /\ host'.seed = host.seed
           /\ host'.run_id = host.run_id
           /\ host'.manifest_hash = host.manifest_hash
           /\ host'.manifest = host.manifest
           /\ host' = host
           /\ NextSeq(host') = NextSeq(host)
           /\ TsSeed(host', NextSeq(host')) = TsSeed(host, NextSeq(host))
           /\ \A path \in OpsPaths : ExecutePlugin(host', path) = ExecutePlugin(host, path)
           /\ calls' = calls ]_vars

\* a trace was saved, grew by later calls, and was then signed
C19_Witness ==
    /\ ret.op = "sign_current_trace"
    /\ disk # None
    /\ Len(FromStr(disk[1]).trace) >= 1
    /\ Len(host.trace) > Len(FromStr(disk[1]).trace)

\* the three status codes a guest can be given
StatusCodes == {HostStatusCode(status) : status \in {"Allowed", "Denied", "Error"}}

EventsOf(k) == SubSeq(host.trace, calls[k].before + 1, calls[k].after)

\* the text an invalid_glob event carries for a pattern
InvalidGlobInput(pattern) == <<"invalid_glob", ": ">> \o pattern

\* C21: Short-circuit on first match. The patterns are evaluated in the
\* order of the list and evaluation stops at the first pattern that compiles
\* and matches: the call then returns Ok(true), the invalid_glob events it
\* appends are those of the malformed patterns before that position, in
\* list order, and no pattern after it leaves an invalid_glob event.
C21_ShortCircuit ==
    \A k \in NonEmptyCalls :
        LET m == host.manifest
            read == DeclaredRead(m)
        IN  \A i \in 1..Len(read) :
               (ValidMatch(m, i, PathText(k)) /\ \A j \in 1..(i - 1) : ~ValidMatch(m, j, PathText(k)))
               => LET before == {j \in 1..(i - 1) : ~Compiles(read[j])}
                  IN  /\ calls[k].result = "Ok(true)"
                      /\ AppendedBy(k) = Cardinality(before) + 1
                      /\ \A n \in 1..Cardinality(before) :
                            EventsOf(k)[n].input = InvalidGlobInput(read[NthOf(before, n)])
                      /\ \A j \in (i + 1)..Len(read), n \in 1..AppendedBy(k) :
                            EventsOf(k)[n].input # InvalidGlobInput(read[j])

\* a call was granted by a pattern that stands before a malformed one
C21_Witness ==
    \E k \in NonEmptyCalls :
        /\ Len(DeclaredRead(host.manifest)) = 2
        /\ ValidMatch(host.manifest, 1, PathText(k))
        /\ ~Compiles(DeclaredRead(host.manifest)[2])
        /\ AppendedBy(k) = 1

\* C22: Check order of one call. The path check comes first, then the
\* capability check, then the read-pattern check, then pattern matching:
\* an empty path returns Err(InvalidPath) and appends nothing on any
\* manifest; otherwise a manifest without fs capability returns
\* Err(NoFsCapability); otherwise an absent or empty read list returns
\* Err(NoReadPatterns); otherwise the patterns decide between Ok(true) and
\* Err(GlobMismatch). The three early errors evaluate no pattern.
C22_CheckOrder ==
    \A k \in 1..Len(calls) :
        LET m == host.manifest
            expected ==
                IF calls[k].path = <<>> THEN "Err(InvalidPath)"
                ELSE IF m.capabilities.fs = None THEN "Err(NoFsCapability)"
                ELSE IF DeclaredRead(m) = <<>> THEN "Err(NoReadPatterns)"
                ELSE IF ~Grants(m, PathText(k)) THEN "Err(GlobMismatch)"
                ELSE "Ok(true)"
        IN  /\ calls[k].result = expected
            /\ expected = "Err(InvalidPath)" => AppendedBy(k) = 0
            /\ expected \in {"Err(NoFsCapability)", "Err(NoReadPatterns)"}
                  => AppendedBy(k) = 1

\* the empty path was refused on a manifest without fs capability, and a
\* non-empty path on the same manifest was refused for the missing capability
C22_Witness ==
    /\ host.manifest.capabilities.fs = None
    /\ \E k \in 1..Len(calls) :
          /\ calls[k].path = <<>>
          /\ calls[k].result = "Err(InvalidPath)"
          /\ AppendedBy(k) = 0
    /\ \E k \in 1..Len(calls) : calls[k].result = "Err(NoFsCapability)"

\* the result half of C23: two calls with the same path return the same
\* result, whatever the trace held when each was made
SameResultForSamePath ==
    \A k, j \in 1..Len(calls) :
        calls[k].path = calls[j].path => calls[k].result = calls[j].result

\* C23: No caching or history dependence. Two calls with the same path
\* return the same result whatever happened between them, and each call with
\* a non-empty path appends at least one event of its own, every appended
\* event carrying a seq that no event already in the trace carries.
C23_NoHistoryDependence ==
    /\ SameResultForSamePath
    /\ \A k \in NonEmptyCalls :
          /\ AppendedBy(k) >= 1
          /\ \A i \in (calls[k].before + 1)..calls[k].after :
                \A j \in 1..(i - 1) : host.trace[j].seq # host.trace[i].seq

\* C24: Append-only trace. Over every step of every operation (execute_plugin,
\* read_file, sign, get, save, load) the trace before the step is the
\* beginning of the trace after it, event for event and field for field, and
\* the manifest and the seed stay what they were at construction.
C24_AppendOnlyTrace ==
    [][ /\ IsPrefix(host.trace, host'.trace)
        /\ host'.manifest = host.manifest
        /\ host'.seed = host.seed ]_vars

\* every call of the run has appended to the trace, and it was signed and saved
C24_Witness ==
    /\ Len(calls) = MaxOpsCalls
    /\ \A k \in 1..Len(calls) : AppendedBy(k) >= 1
    /\ disk # None
    /\ ret.op = "sign_current_trace"

\* every event of the trace was appended by one of the recorded calls
TraceCoveredByCalls ==
    /\ calls = <<>> => host.trace = <<>>
    /\ calls # <<>> => calls[Len(calls)].after = Len(host.trace)
    /\ \A k \in 1..Len(calls) :
          calls[k].before = (IF k = 1 THEN 0 ELSE calls[k - 1].after)

\* C25: Outcome invariant. An event with outcome true was appended by a call
\* that returned Ok(true); it is the last event of that call, a cap.call,
\* and its input is the text of the requested path. Every cap.error event
\* has outcome false, and so has every event of a call that returned an Err.
C25_OutcomeInvariant ==
    /\ TraceCoveredByCalls
    /\ \A k \in 1..Len(calls) :
          \A i \in (calls[k].before + 1)..calls[k].after :
              /\ host.trace[i].outcome = TRUE
                    => /\ calls[k].result = "Ok(true)"
                       /\ i = calls[k].after
                       /\ host.trace[i].event_type = "CapCall"
                       /\ host.trace[i].input = PathText(k)
              /\ calls[k].result \in ErrResults => host.trace[i].outcome = FALSE
    /\ \A i \in 1..Len(host.trace) :
          host.trace[i].event_type = "CapError" => host.trace[i].outcome = FALSE

\* a trace with a granting event, a glob_mismatch event and a cap.error event
C25_Witness ==
    /\ \E i \in 1..Len(host.trace) : host.trace[i].outcome = TRUE
    /\ \E i \in 1..Len(host.trace) :
          host.trace[i].event_type = "CapCall" /\ host.trace[i].outcome = FALSE
    /\ \E i \in 1..Len(host.trace) : host.trace[i].event_type = "CapError"

\* what does hold between the log and the trace: one record for each event,
\* in order, with the same seq, event kind, outcome and ts_seed; the same
\* input on the granting event
LogFollowsTraceButForInput ==
    /\ Len(log) = Len(host.trace)
    /\ \A i \in 1..Len(log) :
          /\ log[i].seq = host.trace[i].seq
          /\ log[i].event_type = EventTypeDisplay(host.trace[i].event_type)
          /\ log[i].outcome = host.trace[i].outcome
          /\ log[i].ts_seed = host.trace[i].ts_seed
          /\ host.trace[i].outcome = TRUE => log[i].input = host.trace[i].input

\* C26: Log/trace equivalence. Each event appended to the trace comes with
\* one emitted log record, and the record carries the same seq, event_type,
\* input, outcome and ts_seed as the event, on the success branch and on
\* every failure branch.
C26_LogTraceEquivalence ==
    /\ Len(log) = Len(host.trace)
    /\ \A i \in 1..Len(log) :
          /\ log[i].seq = host.trace[i].seq
          /\ log[i].event_type = EventTypeDisplay(host.trace[i].event_type)
          /\ log[i].input = host.trace[i].input
          /\ log[i].outcome = host.trace[i].outcome
          /\ log[i].ts_seed = host.trace[i].ts_seed

\* the events a SignedTrace holds
EventsSigned(signed) == FromStr(signed.trace_json).trace

\* C27: Signing follows the trace. The trace_json of the SignedTrace a
\* sign_current_trace call returns is get_trace_json() of that moment and
\* holds every event of the trace; its signature is valid for it. When the
\* trace has grown since the SignedTrace returned before, the new one holds
\* the events of the earlier one and the ones appended since, the earlier
\* signature stays valid for the earlier trace_json, and neither signature
\* verifies against the other trace_json.
C27_SigningFollowsTrace ==
    [][ StepOf("sign_current_trace") =>
          /\ ret'.value.trace_json = GetTraceJson(host)
          /\ FromStr(ret'.value.trace_json).ok
          /\ EventsSigned(ret'.value) = host.trace
          /\ VerifiesAgainst(host.pubkey, ret'.value, ret'.value.trace_json)
          /\ exported'[1] = ret'.value
          /\ (exported # <<>> /\ exported[1] # ret'.value) =>
                /\ exported'[2] = exported[1]
                /\ IsPrefix(EventsSigned(exported[1]), EventsSigned(ret'.value))
                /\ Len(EventsSigned(exported[1])) < Len(EventsSigned(ret'.value))
                /\ VerifiesAgainst(host.pubkey, exported[1], exported[1].trace_json)
                /\ ~VerifiesAgainst(host.pubkey, exported[1], ret'.value.trace_json)
                /\ ~VerifiesAgainst(host.pubkey, ret'.value, exported[1].trace_json) ]_vars

\* a trace was signed, grew by two events or more, and was signed again
C27_Witness ==
    /\ ret.op = "sign_current_trace"
    /\ Len(exported) = 2
    /\ exported[1] = ret.value
    /\ Len(EventsSigned(exported[2])) >= 1
    /\ Len(EventsSigned(exported[1])) >= Len(EventsSigned(exported[2])) + 2

\* enum CapEventSubtype
CapEventSubtypes ==
    {"InvalidPath", "NoFsCapability", "NoReadPatterns", "GlobMismatch", "InvalidGlob"}

\* the kind the conversion rule gives each reason code
KindOfReason(code) ==
    CASE code = "glob_mismatch" -> "cap.call"
      [] code = "invalid_path" -> "cap.error"
      [] code = "no_fs_capability" -> "cap.error"
      [] code = "no_read_patterns" -> "cap.error"
      [] code = "invalid_glob" -> "cap.error"

\* C28: Reason-to-kind mapping. The conversion from failure reason to event
\* kind gives cap.call for glob_mismatch and cap.error for invalid_path,
\* no_fs_capability, no_read_patterns and invalid_glob; and every failure
\* event of the trace (outcome false) has an input that starts with one
\* reason code and ": ", and the event_type the conversion gives for it.
C28_ReasonToKind ==
    /\ \A subtype \in CapEventSubtypes :
          EventTypeDisplay(EventTypeFrom(subtype))
              = KindOfReason(CapEventSubtypeDisplay(subtype))
    /\ \A i \in 1..Len(host.trace) :
          host.trace[i].outcome = FALSE =>
              /\ Len(host.trace[i].input) >= 2
              /\ host.trace[i].input[2] = ": "
              /\ host.trace[i].input[1] \in {CapEventSubtypeDisplay(t) : t \in CapEventSubtypes}
              /\ EventTypeDisplay(host.trace[i].event_type)
                    = KindOfReason(host.trace[i].input[1])

\* a trace with an invalid_glob event and a glob_mismatch event
C28_Witness ==
    /\ \E i \in 1..Len(host.trace) : StartsWith(host.trace[i].input, <<"invalid_glob", ": ">>)
    /\ \E i \in 1..Len(host.trace) : StartsWith(host.trace[i].input, <<"glob_mismatch", ": ">>)

\* C29: Every event in the trace of an engine, appended on the success
\* branch or on any failure branch, carries the run_id of that engine, which
\* is "captra-run-" followed by the decimal seed.
C29_EventRunId ==
    /\ host.run_id = <<"captra-run-">> \o U64Display(host.seed)
    /\ \A i \in 1..Len(host.trace) : host.trace[i].run_id = host.run_id
    /\ \A i \in 1..Len(twin.trace) : twin.trace[i].run_id = twin.run_id

\* an engine of the larger seed holds a granting event and two kinds of failure event
C29_Witness ==
    /\ host.seed = U64High
    /\ \E i \in 1..Len(host.trace) : host.trace[i].outcome = TRUE
    /\ \E i \in 1..Len(host.trace) : StartsWith(host.trace[i].input, <<"glob_mismatch", ": ">>)
    /\ \E i \in 1..Len(host.trace) : StartsWith(host.trace[i].input, <<"invalid_glob", ": ">>)

\* C30: Validation and enforcement use the same compile check. On an engine
\* built from a manifest for which validate returns Ok, no call appends an
\* invalid_glob event, and every call with a non-empty path appends exactly
\* one event, whose seq is the length of the trace after the call.
C30_ValidatedManifestEnforcement ==
    Validate(host.manifest).result = "Ok(())" =>
        /\ \A i \in 1..Len(host.trace) :
              ~StartsWith(host.trace[i].input, <<"invalid_glob", ": ">>)
        /\ \A k \in NonEmptyCalls :
              /\ AppendedBy(k) = 1
              /\ LastEventOf(k).seq = calls[k].after
        /\ \A i \in 1..Len(host.trace) : host.trace[i].seq = i

\* a validated manifest with two read patterns answered a granted and a denied call
C30_Witness ==
    /\ Validate(host.manifest).result = "Ok(())"
    /\ Len(DeclaredRead(host.manifest)) = 2
    /\ \E k \in NonEmptyCalls : calls[k].result = "Ok(true)"
    /\ \E k \in NonEmptyCalls : calls[k].result = "Err(GlobMismatch)"
    /\ Len(host.trace) = MaxCalls

============================================================================
